---- MODULE Spec2Model ----
(***************************************************************************)
(* The three example scripts of keras_tf_multigpu as state machines:       *)
(*   tfqueue : examples/avolkov1/cifar/cifar10_cnn_mgpu_tfqueue.py (main)  *)
(*   alexnet : examples/alexnet_cifar10.py (__main__, train)               *)
(*   resnet50: examples/bzamecnik/staging_area_feed_dict/                  *)
(*             keras_staging_area_resnet50.py (module body)                *)
(* One run executes one script.  Every statement of a script is a step;    *)
(* a step that completes is appended to log.  Calls into the framework may *)
(* raise; the scripts contain no try/except, so a raise ends the run.      *)
(***************************************************************************)
EXTENDS Integers, Sequences, FiniteSets, TLC

VARIABLES
    script,           \* which script this run executes
    pc,               \* the statement about to execute
    status,           \* "running", "done" (fell off the end) or "error"
    err,              \* the exception that ended the run, "none" otherwise
    log,              \* the steps completed so far, in order
    \* ---- cifar10_cnn_mgpu_tfqueue.main
    checkptArg,       \* the --checkpt option as given on the command line
    aug,              \* args.aug
    epochs,           \* args.epochs
    ngpus,            \* len(get_available_gpus(mgpu or 1))
    checkpt_flag,     \* main: checkpt_flag
    filepath,         \* main: filepath (None when --checkpt is absent)
    batch_size,       \* main: batch_size
    steps_per_epoch,  \* main: steps_per_epoch
    callbacks,        \* main: callbacks (list, in order)
    fitCallbacks,     \* the callbacks argument model.fit received
    epochsDone,       \* epochs completed inside model.fit
    files,            \* the weights files on disk: who wrote each one
    threads,          \* queue-runner threads started so far
    running,          \* the started threads that have not stopped
    coord,            \* the Coordinator: exists, stop requested
    joinList,         \* main: threads (the list given to coord.join)
    testq,            \* the test_batch queue: batches enqueued / dequeued
    x_proccessed,     \* main: x_proccessed (what evaluate gets as images)
    y_proccessed,     \* main: y_proccessed (what evaluate gets as labels)
    loaded,           \* what test_model.load_weights read
    evalArgs,         \* the (images, labels) test_model.evaluate received
    \* ---- alexnet_cifar10
    augmentArg,       \* the -a/--augment-data option as given
    batchArg,         \* the -b/--batch-size option, after type=int
    data_augmentation,\* module global data_augmentation
    trainPath,        \* which branch of train() ran
    aSteps,           \* steps_per_epoch given to fit_generator
    \* ---- keras_staging_area_resnet50
    dataset_size,     \* module constant dataset_size
    rBatch,           \* module constant batch_size
    bound,            \* the names bound in the module namespace
    rSteps,           \* module variable steps_per_epoch
    fits,             \* the fit invocations made, in order
    \* ---- cifar10_cnn_mgpu_tfqueue.cifar10_load_data
    batchFiles,       \* the records of data_batch_1 .. data_batch_5 on disk
    x_train,          \* cifar10_load_data: x_train, one image per row
    y_train,          \* cifar10_load_data: y_train, one label per row
    loadI,            \* cifar10_load_data: the loop variable i
    writes            \* how many times each training row has been assigned

common  == <<script, pc, status, err, log>>
tfqIn   == <<checkptArg, aug, epochs, ngpus>>
tfqLoc  == <<checkpt_flag, filepath, batch_size, steps_per_epoch, callbacks,
             fitCallbacks, epochsDone, joinList, x_proccessed, y_proccessed,
             loaded, evalArgs>>
tfqEnv  == <<files, threads, running, coord, testq>>
alexVars == <<augmentArg, batchArg, data_augmentation, trainPath, aSteps>>
resVars == <<dataset_size, rBatch, bound, rSteps, fits>>
loadVars == <<batchFiles, x_train, y_train, loadI, writes>>
vars == <<common, tfqIn, tfqLoc, tfqEnv, alexVars, resVars, loadVars>>

----------------------------------------------------------------------------
(* Bounds of the model *)
MaxGpus == 98            \* device counts explored: 0..MaxGpus
MaxEpochs == 2           \* args.epochs explored: 1..MaxEpochs
MaxPrefetch == 2         \* test batches the queue runners enqueue at most
MaxDatasetSize == 12     \* resnet50: dataset sizes explored 1..MaxDatasetSize
MaxBatchSize == 5        \* resnet50: batch sizes explored 1..MaxBatchSize
BatchRecords == 2        \* cifar10_load_data: records per batch file (the
                         \* 10000 of lines 129-130, scaled down)

(* Program constants *)
batch_size_1gpu == 512
num_train_samples == 50000
num_test_samples == 10000
capacity == 10000
checkptfile == "cifar10_cnn_tfrecord.weights.hdf5"
CustomPath == "my_weights.hdf5"
ResnetDatasetSize == 1024
ResnetBatchSize == 32
AlexDefaultBatch == 128
NumBatches == 5

None == "None"
\* Values of variables not assigned yet.
NoArray == [src |-> "none", first |-> 0, n |-> 0]
NotLoaded == [path |-> None, written |-> None]
Scripts == {"tfqueue", "alexnet", "resnet50"}
Paths == {checkptfile, CustomPath}

Range(s) == {s[i] : i \in 1..Len(s)}
Count(s, x) == Cardinality({i \in 1..Len(s) : s[i] = x})
Pos(s, x) == CHOOSE i \in 1..Len(s) : s[i] = x
Before(s, a, b) == (a \in Range(s) /\ b \in Range(s)) => Pos(s, a) < Pos(s, b)
Requires(s, a, b) == b \in Range(s) => (a \in Range(s) /\ Pos(s, a) < Pos(s, b))
----------------------------------------------------------------------------
(* Control: completing a step, raising an exception *)

At(s, p) == script = s /\ status = "running" /\ pc = p

\* A step completed: it is logged and control moves to the next statement.
Complete(label, next) ==
    /\ pc' = next
    /\ log' = Append(log, label)
    /\ status' = IF next = "end" THEN "done" ELSE "running"
    /\ UNCHANGED <<script, err>>

\* A branch not taken: control moves on, nothing is logged.
Skip(next) ==
    /\ pc' = next
    /\ status' = IF next = "end" THEN "done" ELSE "running"
    /\ UNCHANGED <<script, err, log>>

\* A variant that swallows the exception and carries on with the script.
RaiseRetry(kind) ==
    /\ status' = "running"
    /\ err' = kind
    /\ UNCHANGED <<script, pc, log>>

\* An exception propagates out of the script (no try/except anywhere).
Raise(kind) ==
    /\ status' = "error"
    /\ err' = kind
    /\ UNCHANGED <<script, pc, log>>

----------------------------------------------------------------------------
(* cifar10_cnn_mgpu_tfqueue.py *)

CheckptArgs == {"<absent>", "<novalue>", CustomPath}

\* argparse: nargs='?', const=checkptfile, default=SUPPRESS; then
\* getattr(args, 'checkpt', None).
ParseCheckpt(arg) ==
    IF arg = "<absent>" THEN None
    ELSE IF arg = "<novalue>" THEN checkptfile
    ELSE arg

\* The queue runners the input pipeline registers: two slice_input_producer
\* queues and the two tf.train.batch queues.
QueueRunners == {"train_input", "test_input", "train_batch", "test_batch"}

\* Python floor division a // b (b # 0).
FloorDiv(a, b) == a \div b

\* A variant rounding the quotient up instead of down.
StepsPerEpochRoundUp(train_samples, bs) ==
    IF train_samples % bs = 0 THEN train_samples \div bs
    ELSE (train_samples \div bs) + 1

\* main: steps_per_epoch = train_samples // batch_size
StepsPerEpoch(train_samples, bs) == FloorDiv(train_samples, bs)

\* The statements of main in program order.
TfqOrder == <<"parse_args", "load_data", "pipeline", "gauge", "set_session",
              "make_model", "make_parallel", "compile", "checkpoint_cb",
              "start_queue_runners_1", "start_queue_runners_2", "fit",
              "fit_epoch", "save_weights", "request_stop",
              "join", "clear_session", "test_model", "load_weights",
              "test_compile", "run_x", "run_y", "evaluate", "end">>

\* A variant of the program order that trains before the model is built.
TfqOrderFitFirst == <<"parse_args", "load_data", "pipeline", "gauge", "set_session",
              "fit", "fit_epoch",
              "make_model", "make_parallel", "compile", "checkpoint_cb",
              "start_queue_runners_1", "start_queue_runners_2",
              "save_weights", "request_stop",
              "join", "clear_session", "test_model", "load_weights",
              "test_compile", "run_x", "run_y", "evaluate", "end">>

TSuccFitFirst(p) == TfqOrderFitFirst[Pos(TfqOrderFitFirst, p) + 1]

TSucc(p) == TfqOrder[Pos(TfqOrder, p) + 1]

\* lines 152-171: CLI parsing, device list, batch size.
TParseArgs ==
    /\ At("tfqueue", "parse_args")
    /\ filepath' = ParseCheckpt(checkptArg)
    /\ checkpt_flag' = (ParseCheckpt(checkptArg) # None)
    /\ batch_size' = batch_size_1gpu * ngpus
    /\ Complete("parse_args", TSucc("parse_args"))
    /\ UNCHANGED <<tfqIn, steps_per_epoch, callbacks, fitCallbacks, epochsDone,
                   joinList, x_proccessed, y_proccessed, loaded, evalArgs,
                   tfqEnv, alexVars, resVars, loadVars>>

\* lines 174-192: load the dataset (from --datadir or the framework loader),
\* steps_per_epoch, scaling, one-hot labels.
TLoadData ==
    /\ At("tfqueue", "load_data")
    /\ \E datadir \in BOOLEAN :
         IF batch_size = 0
         THEN /\ Raise("ZeroDivisionError")
              /\ UNCHANGED steps_per_epoch
         ELSE /\ steps_per_epoch' = StepsPerEpoch(num_train_samples, batch_size)
              /\ Complete("load_data", TSucc("load_data"))
    /\ UNCHANGED <<tfqIn, checkpt_flag, filepath, batch_size, callbacks,
                   fitCallbacks, epochsDone, joinList, x_proccessed,
                   y_proccessed, loaded, evalArgs, tfqEnv, alexVars, resVars, loadVars>>

\* lines 215-289: the input pipeline on /cpu:0 (slice_input_producer,
\* optional augmentation, tf.train.batch for train and test) and the input
\* layer.  Building the graph registers the queue runners; nothing runs yet.
TPipeline ==
    /\ At("tfqueue", "pipeline")
    /\ Complete("pipeline", TSucc("pipeline"))
    /\ UNCHANGED <<tfqIn, tfqLoc, tfqEnv, alexVars, resVars, loadVars>>

\* lines 293-294: gauge = SamplesPerSec(batch_size); callbacks = [gauge]
TGauge ==
    /\ At("tfqueue", "gauge")
    /\ callbacks' = <<"gauge">>
    /\ Complete("gauge", TSucc("gauge"))
    /\ UNCHANGED <<tfqIn, checkpt_flag, filepath, batch_size, steps_per_epoch,
                   fitCallbacks, epochsDone, joinList, x_proccessed,
                   y_proccessed, loaded, evalArgs, tfqEnv, alexVars, resVars, loadVars>>

\* lines 296-302: if _DEVPROF or logdevp: install a configured session.
TSetSession ==
    /\ At("tfqueue", "set_session")
    /\ \E logdevp \in BOOLEAN :
         IF logdevp THEN Complete("set_session", TSucc("set_session"))
         ELSE Skip(TSucc("set_session"))
    /\ UNCHANGED <<tfqIn, tfqLoc, tfqEnv, alexVars, resVars, loadVars>>

\* lines 304-306 (make_model, lines 71-107): the training model; an existing
\* checkpoint file is read as initial weights when --checkpt is given.
TMakeModel ==
    /\ At("tfqueue", "make_model")
    /\ Complete("make_model", TSucc("make_model"))
    /\ UNCHANGED <<tfqIn, tfqLoc, tfqEnv, alexVars, resVars, loadVars>>

\* lines 309-315: make_parallel for ngpus > 1, Model(...) otherwise.
TMakeParallel ==
    /\ At("tfqueue", "make_parallel")
    /\ Complete("make_parallel", TSucc("make_parallel"))
    /\ UNCHANGED <<tfqIn, tfqLoc, tfqEnv, alexVars, resVars, loadVars>>

\* lines 317-324: model.compile, print_mgpu_modelsummary.
TCompile ==
    /\ At("tfqueue", "compile")
    /\ Complete("compile", TSucc("compile"))
    /\ UNCHANGED <<tfqIn, tfqLoc, tfqEnv, alexVars, resVars, loadVars>>

\* line 329: callbacks = [checkpoint]
CallbacksWithCheckpoint(cbs) == <<"checkpoint">>

\* lines 326-329: if checkpt_flag: ModelCheckpoint(filepath, ...)
TCheckpointCb ==
    /\ At("tfqueue", "checkpoint_cb")
    /\ IF checkpt_flag
       THEN /\ callbacks' = CallbacksWithCheckpoint(callbacks)
            /\ Complete("checkpoint_cb", TSucc("checkpoint_cb"))
       ELSE /\ UNCHANGED callbacks
            /\ Skip(TSucc("checkpoint_cb"))
    /\ UNCHANGED <<tfqIn, checkpt_flag, filepath, batch_size, steps_per_epoch,
                   fitCallbacks, epochsDone, joinList, x_proccessed,
                   y_proccessed, loaded, evalArgs, tfqEnv, alexVars, resVars, loadVars>>

\* tf.train.start_queue_runners(sess, coord): one thread group per queue
\* runner, registered with coord when one is given; the call returns the
\* threads it created.  A queue runner whose threads already run in this
\* session creates none when the framework de-duplicates (alreadyRuns).
NewThreads(call, withCoord, alreadyRuns) ==
    IF alreadyRuns /\ threads # {} THEN {}
    ELSE {[qr |-> q, call |-> call, registered |-> withCoord]
            : q \in QueueRunners}

\* lines 332-335: sess = KB.get_session(); start_queue_runners(sess=sess)
\* No coordinator is given and the returned list is dropped.
TStartQueueRunners1 ==
    /\ At("tfqueue", "start_queue_runners_1")
    /\ threads' = threads \cup NewThreads(1, FALSE, TRUE)
    /\ running' = running \cup NewThreads(1, FALSE, TRUE)
    /\ Complete("start_queue_runners_1", TSucc("start_queue_runners_1"))
    /\ UNCHANGED <<tfqIn, tfqLoc, files, coord, testq, alexVars, resVars, loadVars>>

\* lines 338-339: coord = Coordinator();
\* threads = start_queue_runners(sess, coord)
TStartQueueRunners2 ==
    /\ At("tfqueue", "start_queue_runners_2")
    /\ \E alreadyRuns \in BOOLEAN :
         /\ threads' = threads \cup NewThreads(2, TRUE, alreadyRuns)
         /\ running' = running \cup NewThreads(2, TRUE, alreadyRuns)
         /\ joinList' = NewThreads(2, TRUE, alreadyRuns)
    /\ coord' = [exists |-> TRUE, stop |-> FALSE]
    /\ Complete("start_queue_runners_2", TSucc("start_queue_runners_2"))
    /\ UNCHANGED <<tfqIn, checkpt_flag, filepath, batch_size, steps_per_epoch,
                   callbacks, fitCallbacks, epochsDone, x_proccessed,
                   y_proccessed, loaded, evalArgs, files, testq, alexVars,
                   resVars, loadVars>>

\* lines 343-351: model.fit(steps_per_epoch=..., epochs=..., callbacks=callbacks)
TFit ==
    /\ At("tfqueue", "fit")
    /\ fitCallbacks' = callbacks
    /\ epochsDone' = 0
    /\ Complete("fit", TSucc("fit"))
    /\ UNCHANGED <<tfqIn, checkpt_flag, filepath, batch_size, steps_per_epoch,
                   callbacks, joinList, x_proccessed, y_proccessed, loaded,
                   evalArgs, tfqEnv, alexVars, resVars, loadVars>>

\* One epoch inside model.fit.  At its end every callback given to fit runs;
\* ModelCheckpoint(filepath, monitor='acc', save_best_only=True) writes the
\* file at the first epoch and at every later epoch that improves 'acc'.
TFitEpoch ==
    /\ At("tfqueue", "fit_epoch")
    /\ epochsDone < epochs
    /\ epochsDone' = epochsDone + 1
    /\ \E improved \in BOOLEAN :
         files' = IF "checkpoint" \in Range(fitCallbacks)
                     /\ (epochsDone = 0 \/ improved)
                  THEN [files EXCEPT ![filepath] = "run"]
                  ELSE files
    /\ UNCHANGED <<common, tfqIn, checkpt_flag, filepath, batch_size,
                   steps_per_epoch, callbacks, fitCallbacks, joinList,
                   x_proccessed, y_proccessed, loaded, evalArgs, threads, running,
                   coord, testq, alexVars, resVars, loadVars>>

\* model.fit returns; lines 352-355: elapsed time, gauge.print_results().
TFitReturn ==
    /\ At("tfqueue", "fit_epoch")
    /\ epochsDone = epochs
    /\ Complete("fit_return", TSucc("fit_epoch"))
    /\ UNCHANGED <<tfqIn, tfqLoc, tfqEnv, alexVars, resVars, loadVars>>

\* lines 357-359: weights_file = checkptfile;
\* if not checkpt_flag: model.save_weights(checkptfile)
TSaveWeights ==
    /\ At("tfqueue", "save_weights")
    /\ IF ~checkpt_flag
       THEN /\ files' = [files EXCEPT ![checkptfile] = "run"]
            /\ Complete("save_weights", TSucc("save_weights"))
       ELSE /\ UNCHANGED files
            /\ Skip(TSucc("save_weights"))
    /\ UNCHANGED <<tfqIn, tfqLoc, threads, running, coord, testq, alexVars,
                   resVars, loadVars>>

\* line 362: coord.request_stop()
TRequestStop ==
    /\ At("tfqueue", "request_stop")
    /\ coord' = [coord EXCEPT !.stop = TRUE]
    /\ Complete("request_stop", TSucc("request_stop"))
    /\ UNCHANGED <<tfqIn, tfqLoc, files, threads, running, testq, alexVars,
                   resVars, loadVars>>

\* The threads coord.join(threads) waits for: those registered with the
\* coordinator and those in the list.
Joined == {t \in threads : t.registered} \cup joinList

\* line 363: coord.join(threads) returns once every joined thread has stopped.
TJoin ==
    /\ At("tfqueue", "join")
    /\ Joined \cap running = {}
    /\ Complete("join", TSucc("join"))
    /\ UNCHANGED <<tfqIn, tfqLoc, tfqEnv, alexVars, resVars, loadVars>>

\* line 365: KB.clear_session()
TClearSession ==
    /\ At("tfqueue", "clear_session")
    /\ Complete("clear_session", TSucc("clear_session"))
    /\ UNCHANGED <<tfqIn, tfqLoc, tfqEnv, alexVars, resVars, loadVars>>

\* line 370: test_model = make_model(x_test.shape[1:], num_classes)
TTestModel ==
    /\ At("tfqueue", "test_model")
    /\ Complete("test_model", TSucc("test_model"))
    /\ UNCHANGED <<tfqIn, tfqLoc, tfqEnv, alexVars, resVars, loadVars>>

\* line 357: weights_file = checkptfile
WeightsFile == checkptfile

\* line 371: test_model.load_weights(weights_file)
TLoadWeights ==
    /\ At("tfqueue", "load_weights")
    /\ IF files[WeightsFile] = "missing"
       THEN /\ Raise("IOError")
            /\ UNCHANGED loaded
       ELSE /\ loaded' = [path |-> WeightsFile, written |-> files[WeightsFile]]
            /\ Complete("load_weights", TSucc("load_weights"))
    /\ UNCHANGED <<tfqIn, checkpt_flag, filepath, batch_size, steps_per_epoch,
                   callbacks, fitCallbacks, epochsDone, joinList, x_proccessed,
                   y_proccessed, evalArgs, tfqEnv, alexVars, resVars, loadVars>>

\* lines 372-374: test_model.compile(...)
TTestCompile ==
    /\ At("tfqueue", "test_compile")
    /\ Complete("test_compile", TSucc("test_compile"))
    /\ UNCHANGED <<tfqIn, tfqLoc, tfqEnv, alexVars, resVars, loadVars>>

\* The rows of the k-th batch taken from the test_batch queue: the test set
\* is produced in order (shuffle=False) and wraps around.
TestBatch(k) ==
    [src |-> "test_batch", first |-> (k * batch_size) % num_test_samples,
     n |-> batch_size]

\* The whole test arrays x_test / y_test.
TestArrays == [src |-> "array", first |-> 0, n |-> num_test_samples]

\* One sess.run of a tensor of the test_batch dequeue op takes one batch
\* off the queue.
Dequeue == [testq EXCEPT !.deq = @ + 1]

\* line 377: x_proccessed = sess.run(x_test_batch)   (only with --aug)
TRunX ==
    /\ At("tfqueue", "run_x")
    /\ IF aug
       THEN /\ testq.enq > testq.deq
            /\ x_proccessed' = TestBatch(testq.deq)
            /\ testq' = Dequeue
            /\ Complete("run_x", TSucc("run_x"))
       ELSE /\ UNCHANGED <<x_proccessed, testq>>
            /\ Skip(TSucc("run_x"))
    /\ UNCHANGED <<tfqIn, checkpt_flag, filepath, batch_size, steps_per_epoch,
                   callbacks, fitCallbacks, epochsDone, joinList, y_proccessed,
                   loaded, evalArgs, files, threads, running, coord, alexVars,
                   resVars, loadVars>>

\* line 378: y_proccessed = sess.run(y_test_batch)   (only with --aug)
TRunY ==
    /\ At("tfqueue", "run_y")
    /\ IF aug
       THEN /\ testq.enq > testq.deq
            /\ y_proccessed' = TestBatch(testq.deq)
            /\ testq' = Dequeue
            /\ Complete("run_y", TSucc("run_y"))
       ELSE /\ UNCHANGED <<y_proccessed, testq>>
            /\ Skip(TSucc("run_y"))
    /\ UNCHANGED <<tfqIn, checkpt_flag, filepath, batch_size, steps_per_epoch,
                   callbacks, fitCallbacks, epochsDone, joinList, x_proccessed,
                   loaded, evalArgs, files, threads, running, coord, alexVars,
                   resVars, loadVars>>

\* lines 379-384: test_model.evaluate(...), print loss and accuracy.
TEvaluate ==
    /\ At("tfqueue", "evaluate")
    /\ evalArgs' = IF aug THEN <<x_proccessed, y_proccessed>>
                   ELSE <<TestArrays, TestArrays>>
    /\ Complete("evaluate", TSucc("evaluate"))
    /\ UNCHANGED <<tfqIn, checkpt_flag, filepath, batch_size, steps_per_epoch,
                   callbacks, fitCallbacks, epochsDone, joinList, x_proccessed,
                   y_proccessed, loaded, tfqEnv, alexVars, resVars, loadVars>>

\* A running test pipeline (the test slice producer feeding the test_batch
\* queue runner) puts one more batch of test rows into the test_batch queue,
\* up to the queue's capacity.
QueueRunnerEnqueue ==
    /\ script = "tfqueue" /\ status = "running"
    /\ \E t \in running : t.qr = "test_input"
    /\ \E t \in running : t.qr = "test_batch"
    /\ (testq.enq - testq.deq + 1) * batch_size <= capacity
    /\ testq.enq < MaxPrefetch
    /\ testq' = [testq EXCEPT !.enq = @ + 1]
    /\ UNCHANGED <<common, tfqIn, tfqLoc, files, threads, running, coord,
                   alexVars, resVars, loadVars>>

\* A queue-runner thread started with a coordinator leaves its loop once
\* the coordinator's stop has been requested.
QueueRunnerStop ==
    /\ script = "tfqueue" /\ status = "running"
    /\ coord.stop
    /\ \E t \in running :
         /\ t.registered
         /\ running' = running \ {t}
    /\ UNCHANGED <<common, tfqIn, tfqLoc, files, threads, coord, testq,
                   alexVars, resVars, loadVars>>

----------------------------------------------------------------------------
(* alexnet_cifar10.py *)

\* What the user can write after -a/--augment-data ("<omitted>": no flag).
AugmentArgs == {"<omitted>", "True", "1", "False", "0", ""}

\* What the user can write after -b/--batch-size, after type=int.
BatchArgs == {0 - 1, 0, 3, AlexDefaultBatch}

\* Python's bool() of a string: only the empty string is false.
PyBool(str) == str # ""

\* argparse: default=True, type=bool
ParseAugment(arg) == IF arg = "<omitted>" THEN TRUE ELSE PyBool(arg)

\* lines 112-118: parse_args and the module globals.
AParseArgs ==
    /\ At("alexnet", "parse_args")
    /\ data_augmentation' = ParseAugment(augmentArg)
    /\ Complete("parse_args", "load_data")
    /\ UNCHANGED <<tfqIn, tfqLoc, tfqEnv, augmentArg, batchArg, trainPath,
                   aSteps, resVars, loadVars>>

\* lines 120-121 (load_data, lines 21-35)
ALoadData ==
    /\ At("alexnet", "load_data")
    /\ Complete("load_data", "create_model")
    /\ UNCHANGED <<tfqIn, tfqLoc, tfqEnv, alexVars, resVars, loadVars>>

\* line 122 (create_model, lines 37-63): build and compile the model.
ACreateModel ==
    /\ At("alexnet", "create_model")
    /\ Complete("create_model", "train")
    /\ UNCHANGED <<tfqIn, tfqLoc, tfqEnv, alexVars, resVars, loadVars>>

\* train, lines 67-73: if not data_augmentation: model.fit(...)
ATrainPlain ==
    /\ At("alexnet", "train")
    /\ ~data_augmentation
    /\ trainPath' = "plain"
    /\ Complete("fit", "end")
    /\ UNCHANGED <<tfqIn, tfqLoc, tfqEnv, augmentArg, batchArg,
                   data_augmentation, aSteps, resVars, loadVars>>

\* train, lines 74-91: else: ImageDataGenerator(...), datagen.fit(x_train)
ADatagen ==
    /\ At("alexnet", "train")
    /\ data_augmentation
    /\ trainPath' = "augmented"
    /\ Complete("datagen", "fit_generator")
    /\ UNCHANGED <<tfqIn, tfqLoc, tfqEnv, augmentArg, batchArg,
                   data_augmentation, aSteps, resVars, loadVars>>

\* train, lines 94-98: model.fit_generator(datagen.flow(...),
\*     steps_per_epoch=x_train.shape[0] // batch_size, ...)
AFitGenerator ==
    /\ At("alexnet", "fit_generator")
    /\ IF batchArg = 0
       THEN /\ Raise("ZeroDivisionError")
            /\ UNCHANGED aSteps
       ELSE /\ aSteps' = FloorDiv(num_train_samples, batchArg)
            /\ Complete("fit_generator", "end")
    /\ UNCHANGED <<tfqIn, tfqLoc, tfqEnv, augmentArg, batchArg,
                   data_augmentation, trainPath, resVars, loadVars>>

----------------------------------------------------------------------------
(* keras_staging_area_resnet50.py *)

\* A variant that drops the smaller last batch.
FloorSteps(n, bs) == n \div bs

\* line 40: int(math.ceil(len(x_train) / batch_size)).  The module is
\* Python 3 code (no __future__ imports), so the quotient is a true division;
\* for array lengths (far below 2^53) the double it yields has the same
\* ceiling as the exact quotient.
CeilSteps(n, bs) == IF n % bs = 0 THEN n \div bs ELSE (n \div bs) + 1

\* The names the import statements of lines 6-12 bind.
Imported == {"math", "np", "ResNet50", "SamplesPerSec", "create_synth_imagenet"}

\* The module body, statement by statement: the names each statement reads
\* and the names it binds.
RProg == <<
  [label |-> "import",  uses |-> {}, binds |-> Imported],
  [label |-> "seed",    uses |-> {"np"}, binds |-> {}],
  [label |-> "def_make_plain_model", uses |-> {},
   binds |-> {"make_plain_model"}],
  [label |-> "def_make_tensor_model", uses |-> {},
   binds |-> {"make_tensor_model"}],
  [label |-> "constants", uses |-> {},
   binds |-> {"num_classes", "dataset_size", "batch_size", "epochs"}],
  [label |-> "load_data", uses |-> {"create_synth_imagenet", "dataset_size"},
   binds |-> {"x_train", "y_train"}],
  [label |-> "steps_per_epoch", uses |-> {"math", "x_train", "batch_size"},
   binds |-> {"steps_per_epoch"}],
  [label |-> "gauge", uses |-> {"SamplesPerSec", "batch_size"},
   binds |-> {"gauge"}],
  [label |-> "staging_area",
   uses |-> {"StagingAreaCallback", "x_train", "y_train", "batch_size"},
   binds |-> {"staging_area_callback"}],
  [label |-> "plain_model",
   uses |-> {"make_plain_model", "num_classes", "ResNet50"},
   binds |-> {"plain_model"}],
  [label |-> "plain_fit",
   uses |-> {"plain_model", "x_train", "y_train", "batch_size", "epochs",
             "gauge"},
   binds |-> {}],
  [label |-> "pipelined_model",
   uses |-> {"make_tensor_model", "staging_area_callback", "num_classes",
             "ResNet50"},
   binds |-> {"pipelined_model"}],
  [label |-> "pipelined_fit",
   uses |-> {"pipelined_model", "steps_per_epoch", "epochs",
             "staging_area_callback", "gauge"},
   binds |-> {}] >>

RIndex(label) == CHOOSE i \in 1..Len(RProg) : RProg[i].label = label

RSucc(label) ==
    IF RIndex(label) = Len(RProg) THEN "end" ELSE RProg[RIndex(label) + 1].label

\* The fit invocation a statement makes, if it makes one (steps: the
\* steps_per_epoch argument, 0 when the call gives none).
RFit(label) ==
    IF label = "plain_fit"
    THEN <<[model |-> "plain", data |-> "x_train, y_train", steps |-> 0,
            callbacks |-> <<"gauge">>]>>
    ELSE IF label = "pipelined_fit"
    THEN <<[model |-> "pipelined", data |-> "staging area", steps |-> rSteps,
            callbacks |-> <<"staging_area_callback", "gauge">>]>>
    ELSE << >>

\* One statement of the module body.  Reading a name that is not bound
\* raises NameError.
RStep ==
    /\ script = "resnet50" /\ status = "running" /\ pc # "end"
    /\ LET st == RProg[RIndex(pc)] IN
         IF st.uses \subseteq bound
         THEN /\ bound' = bound \cup st.binds
              /\ rSteps' = IF pc = "steps_per_epoch"
                           THEN CeilSteps(dataset_size, rBatch) ELSE rSteps
              /\ fits' = fits \o RFit(pc)
              /\ Complete(pc, RSucc(pc))
         ELSE /\ Raise("NameError")
              /\ UNCHANGED <<bound, rSteps, fits>>
    /\ UNCHANGED <<tfqIn, tfqLoc, tfqEnv, alexVars, dataset_size, rBatch,
                   loadVars>>

----------------------------------------------------------------------------
(* cifar10_cnn_mgpu_tfqueue.py: cifar10_load_data(path), run on its own *)

Loader == "cifar10_load_data"

\* The class labels the batch files hold in this model (two of the ten).
Labels == {0, 1}

\* The image of record j of data_batch_b; every record's image is its own.
ImageOf(b, j) == <<b, j>>

\* A row of np.zeros(...): no image of any file.
ZeroImage == <<0, 0>>

\* The batch files a data directory can hold: NumBatches files of
\* BatchRecords records each, every record an image and its label.
BatchFileSets ==
    {[b \in 1..NumBatches |->
        [j \in 1..BatchRecords |-> [img |-> ImageOf(b, j), label |-> L[b][j]]]]
       : L \in [1..NumBatches -> [1..BatchRecords -> Labels]]}

\* line 121: num_train_samples (50000 = 5 * 10000, scaled with BatchRecords).
LoaderRows == NumBatches * BatchRecords

\* line 128: data, labels = cifar10.load_batch(fpath) for data_batch_i
LoadBatch(i) ==
    [data   |-> [j \in 1..BatchRecords |-> batchFiles[i][j].img],
     labels |-> [j \in 1..BatchRecords |-> batchFiles[i][j].label]]

\* A variant that forgets the offset: every batch goes to the first rows.
TrainSliceFromZero(i) == [lo |-> 0, hi |-> BatchRecords]

\* lines 129-130: the slice (i - 1) * 10000 : i * 10000
TrainSlice(i) == [lo |-> (i - 1) * BatchRecords, hi |-> i * BatchRecords]

Min(a, b) == IF a < b THEN a ELSE b

\* numpy: the number of rows the slice lo:hi selects in an array of n rows.
SliceLen(sl, n) ==
    IF Min(sl.hi, n) > Min(sl.lo, n) THEN Min(sl.hi, n) - Min(sl.lo, n) ELSE 0

\* numpy: arr[lo:hi] = data (rows are numbered from 0; sequences from 1).
SliceAssign(arr, sl, data) ==
    [k \in 1..Len(arr) |->
        IF sl.lo < k /\ k <= Min(sl.hi, Len(arr)) THEN data[k - sl.lo]
        ELSE arr[k]]

\* The rows arr[lo:hi] = ... assigns are counted once more.
CountWrites(w, sl) ==
    [k \in 1..Len(w) |->
        IF sl.lo < k /\ k <= Min(sl.hi, Len(w)) THEN w[k] + 1 ELSE w[k]]

\* lines 116-124: the paths, x_train = np.zeros(...), y_train = np.zeros(...)
LInitArrays ==
    /\ At(Loader, "init_arrays")
    /\ x_train' = [k \in 1..LoaderRows |-> ZeroImage]
    /\ y_train' = [k \in 1..LoaderRows |-> 0]
    /\ writes' = [k \in 1..LoaderRows |-> 0]
    /\ loadI' = 1
    /\ Complete("init_arrays", "load_batch")
    /\ UNCHANGED <<tfqIn, tfqLoc, tfqEnv, alexVars, resVars, batchFiles>>

\* lines 126-130: one iteration of for i in range(1, 6).  An assignment
\* whose right-hand side does not have the slice's length raises ValueError.
LLoadBatch ==
    /\ At(Loader, "load_batch")
    /\ loadI <= NumBatches
    /\ LET b  == LoadBatch(loadI)
           sl == TrainSlice(loadI)
       IN IF SliceLen(sl, Len(x_train)) = Len(b.data)
          THEN /\ x_train' = SliceAssign(x_train, sl, b.data)
               /\ y_train' = SliceAssign(y_train, sl, b.labels)
               /\ writes' = CountWrites(writes, sl)
               /\ loadI' = loadI + 1
               /\ pc' = IF loadI = NumBatches THEN "load_test" ELSE pc
               /\ UNCHANGED <<script, status, err, log>>
          ELSE /\ Raise("ValueError")
               /\ UNCHANGED <<x_train, y_train, writes, loadI>>
    /\ UNCHANGED <<tfqIn, tfqLoc, tfqEnv, alexVars, resVars, batchFiles>>

\* lines 132-133: x_test, y_test = cifar10.load_batch(test_batch)
LLoadTest ==
    /\ At(Loader, "load_test")
    /\ Complete("load_test", "reshape")
    /\ UNCHANGED <<tfqIn, tfqLoc, tfqEnv, alexVars, resVars, loadVars>>

\* lines 135-142: the labels become a column, the image axes are transposed
\* for channels_last (inside each row; rows keep their place), return.
LReturn ==
    /\ At(Loader, "reshape")
    /\ \E channels_last \in BOOLEAN :
         Complete("return", "end")
    /\ UNCHANGED <<tfqIn, tfqLoc, tfqEnv, alexVars, resVars, loadVars>>

----------------------------------------------------------------------------
(* The environment and the whole system *)

\* A call into the framework, the file system or the devices raises.
FrameworkError ==
    /\ status = "running"
    /\ Raise("FrameworkError")
    /\ UNCHANGED <<tfqIn, tfqLoc, tfqEnv, alexVars, resVars, loadVars>>

FirstStatement(s) ==
    IF s = "resnet50" THEN RProg[1].label
    ELSE IF s = Loader THEN "init_arrays"
    ELSE "parse_args"

Init ==
    /\ script \in Scripts \cup {Loader}
    /\ pc = FirstStatement(script)
    /\ status = "running"
    /\ err = "none"
    /\ log = << >>
    \* tfqueue: the command line, the devices, the files left by earlier runs
    /\ checkptArg \in (IF script = "tfqueue" THEN CheckptArgs ELSE {"<absent>"})
    /\ aug \in (IF script = "tfqueue" THEN BOOLEAN ELSE {FALSE})
    /\ epochs \in (IF script = "tfqueue" THEN 1..MaxEpochs ELSE {1})
    /\ ngpus \in (IF script = "tfqueue" THEN 0..MaxGpus ELSE {1})
    /\ files \in (IF script = "tfqueue" THEN [Paths -> {"missing", "stale"}]
                  ELSE {[p \in Paths |-> "missing"]})
    /\ checkpt_flag = FALSE
    /\ filepath = None
    /\ batch_size = 0
    /\ steps_per_epoch = 0
    /\ callbacks = << >>
    /\ fitCallbacks = << >>
    /\ epochsDone = 0
    /\ threads = {}
    /\ running = {}
    /\ coord = [exists |-> FALSE, stop |-> FALSE]
    /\ joinList = {}
    /\ testq = [enq |-> 0, deq |-> 0]
    /\ x_proccessed = NoArray
    /\ y_proccessed = NoArray
    /\ loaded = NotLoaded
    /\ evalArgs = << >>
    \* alexnet: the command line
    /\ augmentArg \in (IF script = "alexnet" THEN AugmentArgs ELSE {"<omitted>"})
    /\ batchArg \in (IF script = "alexnet" THEN BatchArgs ELSE {AlexDefaultBatch})
    /\ data_augmentation = TRUE
    /\ trainPath = "none"
    /\ aSteps = 0
    \* resnet50: the two sizes the module body fixes
    /\ dataset_size \in (IF script = "resnet50"
                         THEN 1..MaxDatasetSize \cup {ResnetDatasetSize}
                         ELSE {ResnetDatasetSize})
    /\ rBatch \in (IF script = "resnet50"
                   THEN 1..MaxBatchSize \cup {ResnetBatchSize}
                   ELSE {ResnetBatchSize})
    /\ bound = {}
    /\ rSteps = 0
    /\ fits = << >>
    \* cifar10_load_data: the batch files in the data directory
    /\ batchFiles \in (IF script = Loader THEN BatchFileSets
                       ELSE {[b \in 1..NumBatches |->
                               [j \in 1..BatchRecords |->
                                 [img |-> ImageOf(b, j), label |-> 0]]]})
    /\ x_train = << >>
    /\ y_train = << >>
    /\ loadI = 0
    /\ writes = << >>

Next ==
    \/ TParseArgs \/ TLoadData \/ TPipeline \/ TGauge \/ TSetSession
    \/ TMakeModel \/ TMakeParallel \/ TCompile \/ TCheckpointCb
    \/ TStartQueueRunners1 \/ TStartQueueRunners2
    \/ TFit \/ TFitEpoch \/ TFitReturn \/ TSaveWeights
    \/ TRequestStop \/ TJoin \/ TClearSession
    \/ TTestModel \/ TLoadWeights \/ TTestCompile \/ TRunX \/ TRunY \/ TEvaluate
    \/ QueueRunnerEnqueue \/ QueueRunnerStop
    \/ AParseArgs \/ ALoadData \/ ACreateModel \/ ATrainPlain \/ ADatagen
    \/ AFitGenerator
    \/ RStep
    \/ LInitArrays \/ LLoadBatch \/ LLoadTest \/ LReturn
    \/ FrameworkError

Spec == Init /\ [][Next]_vars

----------------------------------------------------------------------------
(* Properties *)

Done(step) == step \in Range(log)

NoRepeat(s) == \A i, j \in 1..Len(s) : i # j => s[i] # s[j]

\* The order of the steps every script keeps.
StepOrder ==
    /\ NoRepeat(log)
    /\ script = "tfqueue" =>
         /\ Requires(log, "load_data", "pipeline")
         /\ Requires(log, "load_data", "make_model")
         /\ Requires(log, "pipeline", "make_model")
         /\ Requires(log, "make_model", "compile")
         /\ Requires(log, "compile", "fit")
         /\ Requires(log, "fit", "fit_return")
         /\ Requires(log, "fit_return", "save_weights")
         /\ Requires(log, "fit_return", "load_weights")
         /\ Requires(log, "fit_return", "evaluate")
    /\ script = "alexnet" =>
         /\ Requires(log, "load_data", "create_model")
         /\ Requires(log, "create_model", "fit")
         /\ Requires(log, "create_model", "datagen")
         /\ Requires(log, "create_model", "fit_generator")
    /\ script = "resnet50" =>
         /\ Requires(log, "load_data", "staging_area")
         /\ Requires(log, "load_data", "plain_model")
         /\ Requires(log, "plain_model", "plain_fit")
         /\ Requires(log, "pipelined_model", "pipelined_fit")

\* A weights file is written in this step.
WeightsWritten == files' # files

\* C1 as stated: the steps of every script run in the stated order, each at
\* most once, and in main no weights are written before model.fit has
\* returned.
C1_SavedOnlyAfterFitReturns ==
    /\ [](StepOrder)
    /\ [][WeightsWritten => Done("fit_return")]_vars

\* C1, amended: the steps of every script run in the stated order, each at
\* most once; main's own save_weights call and the evaluation come after
\* model.fit has returned; with --checkpt the weights file is written by the
\* ModelCheckpoint callback inside the fit call, before it returns, and
\* without --checkpt no weights are written before fit has returned.
C1_StepOrder ==
    /\ [](StepOrder)
    /\ [][WeightsWritten =>
            \/ ~checkpt_flag /\ Done("fit_return")
            \/ checkpt_flag /\ Done("fit") /\ ~Done("fit_return")]_vars

\* A run with --checkpt went through to the evaluation, the checkpoint
\* having been written during fit.
C1_Witness ==
    /\ script = "tfqueue" /\ status = "done"
    /\ checkpt_flag /\ files[filepath] = "run"
    /\ Done("evaluate")

\* C2: the images and the labels given to test_model.evaluate are the same
\* rows in the same order (and so have the same batch dimension).
C2_EvaluateAligned ==
    evalArgs # << >> => evalArgs[1] = evalArgs[2]

\* The checkpoint path in effect: the --checkpt value, else the default.
EffectivePath ==
    IF ParseCheckpt(checkptArg) = None THEN checkptfile
    ELSE ParseCheckpt(checkptArg)

\* C3: the weights the evaluation model loads were written by this run's
\* training, at the checkpoint path in effect.
C3_LoadsThisRunsCheckpoint ==
    loaded # NotLoaded => (loaded.path = EffectivePath /\ loaded.written = "run")

\* C4: the throughput gauge is among the callbacks model.fit receives.
C4_GaugeInFitCallbacks ==
    (script = "tfqueue" /\ Done("fit")) => "gauge" \in Range(fitCallbacks)

\* C5: once coord.join has returned, every queue-runner thread main started
\* was registered with the coordinator, was in the list given to join, and
\* runs no more.
C5_AllThreadsJoined ==
    Done("join") =>
        \A t \in threads : t.registered /\ t \in joinList /\ t \notin running

\* The option values that denote "true"; omitting the flag enables.
DenotesTrue(arg) == arg \in {"<omitted>", "True", "1"}

\* C6: train() takes the augmented path exactly when the -a value denotes
\* true, the plain path exactly when it denotes false.
C6_AugmentToggle ==
    trainPath # "none" => (trainPath = "augmented" <=> DenotesTrue(augmentArg))

\* C7: a failing step ends the script in the error state; nothing is retried,
\* no step runs twice, and after the failure no step runs and nothing changes
\* any more (no request_stop, join or clear_session on the way out).
C7_NoRetryNoRecovery ==
    /\ [](err # "none" => status = "error")
    /\ [](NoRepeat(log))
    /\ [][status = "error" => UNCHANGED vars]_vars

\* Training failed inside model.fit with the queue runners started: the run
\* is over and the cleanup was not executed, the threads were left running.
C7_Witness ==
    /\ script = "tfqueue" /\ status = "error" /\ pc = "fit_epoch"
    /\ running # {} /\ ~coord.stop /\ ~Done("request_stop")

\* C8: steps_per_epoch is the ceiling of dataset_size / batch_size.
C8_CeilCoversLastBatch ==
    (script = "resnet50" /\ Done("steps_per_epoch")) =>
        /\ rSteps * rBatch >= dataset_size
        /\ (rSteps - 1) * rBatch < dataset_size

\* steps_per_epoch was computed for a dataset whose last batch is smaller.
C8_Witness ==
    /\ script = "resnet50" /\ Done("steps_per_epoch")
    /\ dataset_size % rBatch # 0 /\ rSteps >= 2

\* C9: unless the framework itself fails, the example runs to its end: it
\* makes the plain fit and then the pipelined fit with steps_per_epoch steps,
\* the staging-area callback and the gauge, and never reads an unbound name.
C9_ReachesBothFits ==
    (script = "resnet50" /\ status # "running" /\ err # "FrameworkError") =>
        /\ err = "none"
        /\ fits = <<[model |-> "plain", data |-> "x_train, y_train",
                     steps |-> 0, callbacks |-> <<"gauge">>],
                    [model |-> "pipelined", data |-> "staging area",
                     steps |-> rSteps,
                     callbacks |-> <<"staging_area_callback", "gauge">>]>>

\* q is floor(a / b), for b # 0.
IsFloor(q, a, b) ==
    IF b > 0 THEN q * b <= a /\ a < (q + 1) * b
    ELSE q * b >= a /\ a > (q + 1) * b

\* What C10 says of both scripts whatever the device count.
FloorFormula ==
    /\ (script = "tfqueue" /\ Done("load_data") /\ ngpus >= 1) =>
         /\ batch_size = batch_size_1gpu * ngpus
         /\ steps_per_epoch * batch_size <= num_train_samples
         /\ num_train_samples < (steps_per_epoch + 1) * batch_size
    /\ (script = "alexnet" /\ Done("fit_generator")) =>
         IsFloor(aSteps, num_train_samples, batchArg)

\* C10 as stated: the floor formula, and every fit call runs at least one
\* step per epoch.
C10_AtLeastOneStep ==
    /\ FloorFormula
    /\ (script = "tfqueue" /\ Done("fit")) => steps_per_epoch >= 1

\* C10, amended: the floor formula holds for every n >= 1; the fit call runs
\* at least one step per epoch exactly when 512 * n <= train_samples, and
\* with more devices than that steps_per_epoch is 0.
C10_FloorSteps ==
    /\ FloorFormula
    /\ (script = "tfqueue" /\ Done("fit")) =>
         /\ steps_per_epoch >= 1 <=> batch_size <= num_train_samples
         /\ steps_per_epoch >= 0

\* model.fit was called with steps_per_epoch = 0.
C10_Witness ==
    /\ script = "tfqueue" /\ Done("fit")
    /\ ngpus >= 1 /\ steps_per_epoch = 0

\* The record the partition puts in training row k (rows numbered from 0):
\* record k mod 10000 of data_batch_(floor(k / 10000) + 1).
RecordOfRow(k) == batchFiles[(k \div BatchRecords) + 1][(k % BatchRecords) + 1]

\* C11: the loop assembles the training set as an exact partition of the
\* five batch files: no row is ever assigned twice, and after the loop every
\* row has been assigned exactly once and holds the image and the label of
\* its own record.
C11_ExactPartition ==
    (script = Loader /\ Done("init_arrays")) =>
        /\ \A k \in 0..(LoaderRows - 1) : writes[k + 1] <= 1
        /\ loadI > NumBatches =>
             \A k \in 0..(LoaderRows - 1) :
                /\ writes[k + 1] = 1
                /\ x_train[k + 1] = RecordOfRow(k).img
                /\ y_train[k + 1] = RecordOfRow(k).label

\* cifar10_load_data returned a training set whose rows carry both labels,
\* the last row of the last batch among them.
C11_Witness ==
    /\ script = Loader /\ status = "done" /\ Done("return")
    /\ x_train[LoaderRows] = ImageOf(NumBatches, BatchRecords)
    /\ \E k \in 1..LoaderRows : y_train[k] = 0
    /\ y_train[LoaderRows] = 1

====
